---- MODULE Spec2Model ----
(***************************************************************************)
(* Model of strawberry/channels/handlers/http_handler.py: the Channels     *)
(* consumer that serves GraphQL over HTTP.                                 *)
(*                                                                         *)
(* The file holds ChannelsRequestAdapter, GraphQLHTTPConsumer (handle,     *)
(* create_response, the context hooks, render_graphiql) and                *)
(* SyncGraphQLHTTPConsumer.execute.  run(), the body parsing, the engine   *)
(* (schema.execute), OperationType.from_http, HTTPException and            *)
(* TemporalResponse live in other modules of the package; they are         *)
(* modelled from the specification and are marked so where defined.        *)
(*                                                                         *)
(* Python values: an optional value is <<>> (None) or <<v>>; a dict is a   *)
(* function; bytes are [bytes |-> s]; a str that shares a slot with other  *)
(* payloads is a record tagged with its kind.                              *)
(***************************************************************************)
EXTENDS Integers, Sequences, FiniteSets, TLC

\* ------------------------------------------------------------------ bounds
\* Requests the host transport has handed to consumers.
NumRequests == 2
\* Longest query string, in characters.
MaxQueryLen == 6

Reqs == 1..NumRequests

VARIABLES
    cfg,            \* the consumer's configuration (__init__, lines 150-162)
    scope,          \* r -> the request as the transport delivered it
    pc,             \* r -> where handle(r) stands
    heap,           \* TemporalResponse objects by identity
    sub_response,   \* r -> <<id>> of the sub-response run() created
    context,        \* r -> <<the context dict>>
    root_value,     \* r -> <<the root value>> once computed
    allowed,        \* r -> <<allowed operation types>> once computed
    engine_call,    \* r -> <<arguments the engine was invoked with>>
    resolver_ran,   \* r -> a resolver of the operation has executed
    effects,        \* r -> what r's resolvers wrote to their sub-response
    response_data,  \* r -> <<process_result's dict>>
    outcome,        \* r -> how run(request) ended
    sent,           \* r -> the send_response calls handle made
    qs,             \* the scope's query_string under query_params
    qp              \* <<query_params' dict>> once computed

vars == <<cfg, scope, pc, heap, sub_response, context, root_value, allowed,
          engine_call, resolver_ran, effects, response_data, outcome, sent,
          qs, qp>>

\* --------------------------------------------------------- python values
None == <<>>
Some(v) == <<v>>
EmptyDict == [k \in {} |-> None]

\* str.encode(): the bytes object of an ASCII str.
Encode(s) == [bytes |-> s]

\* bool(x) of an Optional[int]: None and 0 are falsy.
Truthy(opt) == opt # None /\ opt[1] # 0

\* json.dumps(response_data): the JSON text of the dict.
json_dumps(d) == [kind |-> "json", value |-> d]

\* ------------------------------------------------------------ Result
\* @dataclass Result: status 200, content_type application/json, headers None.
DefaultStatus == 200
DefaultContentType == "application/json"
Result(response) ==
    [response |-> response, status |-> DefaultStatus,
     content_type |-> DefaultContentType, headers |-> None]

\* Request(consumer=self.scope, body=body)
Request(r, sc) == [consumer |-> r, body |-> sc.body]

\* ------------------------------------------------ ChannelsRequestAdapter
\* str.lower() on the header names a client may send or a resolver may set.
Lower(name) ==
    CASE name = "Content-Type"   -> "content-type"
      [] name = "content-type"   -> "content-type"
      [] name = "Content-Length" -> "content-length"
      [] name = "Accept"         -> "accept"
      [] name = "Set-Cookie"     -> "set-cookie"
      [] OTHER                   -> name

\* dict.get(key, default)
DictGet(d, k, default) == IF k \in DOMAIN d THEN d[k] ELSE default

\* d[k] = v
DictSet(d, k, v) == [x \in DOMAIN d \cup {k} |-> IF x = k THEN v ELSE d[x]]

\* ChannelsRequestAdapter.headers: a dict comprehension over the scope's list
\* of (name, value) pairs with the names lower-cased; a later pair of the same
\* name replaces an earlier one.
headers(sc) ==
    LET hs == sc.headers
        idx(n) == {i \in 1..Len(hs) : Lower(hs[i][1]) = n}
    IN  [n \in {Lower(hs[i][1]) : i \in 1..Len(hs)} |->
            hs[CHOOSE i \in idx(n) : \A j \in idx(n) : j <= i][2]]

\* ChannelsRequestAdapter.content_type
content_type(sc) ==
    IF "content-type" \in DOMAIN headers(sc)
    THEN Some(headers(sc)["content-type"]) ELSE None

\* A str is a sequence of one-character strings.  The characters of a query
\* string under test: two name/value characters (both hex digits), the
\* separators, the encoded space and the escape character.
QueryChars == {"a", "b", "=", "&", "+", "%"}
HexDigits == {"a", "b"}

RECURSIVE Split(_, _)
\* str.split(sep): the segments between the separators, empty ones included.
Split(s, sep) ==
    IF \A i \in 1..Len(s) : s[i] # sep THEN <<s>>
    ELSE LET i == CHOOSE i \in 1..Len(s) :
                    s[i] = sep /\ \A j \in 1..(i - 1) : s[j] # sep
         IN  <<SubSeq(s, 1, i - 1)>> \o Split(SubSeq(s, i + 1, Len(s)), sep)

\* str.partition("="): the text before the first "=", whether there is one,
\* and the text after it.
Partition(s) ==
    IF \A i \in 1..Len(s) : s[i] # "=" THEN [name |-> s, has_eq |-> FALSE, value |-> <<>>]
    ELSE LET i == CHOOSE i \in 1..Len(s) :
                    s[i] = "=" /\ \A j \in 1..(i - 1) : s[j] # "="
         IN  [name |-> SubSeq(s, 1, i - 1), has_eq |-> TRUE,
              value |-> SubSeq(s, i + 1, Len(s))]

\* str.replace("+", " ")
PlusToSpace(s) == [i \in 1..Len(s) |-> IF s[i] = "+" THEN " " ELSE s[i]]

RECURSIVE unquote(_)
\* urllib.parse.unquote: %XX becomes the byte XX, decoded as UTF-8 with
\* errors="replace"; %aa, %ab, %ba and %bb are lone continuation bytes and
\* each decodes to U+FFFD.
\* A % that two hex digits do not follow is kept.
unquote(s) ==
    IF s = <<>> THEN <<>>
    ELSE IF Len(s) >= 3 /\ s[1] = "%" /\ s[2] \in HexDigits /\ s[3] \in HexDigits
    THEN <<"U+FFFD">> \o unquote(SubSeq(s, 4, Len(s)))
    ELSE <<s[1]>> \o unquote(Tail(s))

RECURSIVE parse_pairs(_, _)
\* urllib.parse.parse_qsl over the segments: an empty segment is skipped, a
\* blank value is kept only with keep_blank_values.
parse_pairs(segs, keep_blank_values) ==
    IF segs = <<>> THEN <<>>
    ELSE LET nv == Partition(Head(segs))
             rest == parse_pairs(Tail(segs), keep_blank_values)
         IN  IF Head(segs) # <<>> /\ (nv.value # <<>> \/ keep_blank_values)
             THEN <<[name |-> unquote(PlusToSpace(nv.name)),
                     value |-> unquote(PlusToSpace(nv.value))]>> \o rest
             ELSE rest

parse_qsl(text, keep_blank_values) ==
    parse_pairs(Split(text, "&"), keep_blank_values)

\* urllib.parse.parse_qs: each name with the list of its values, in order.
parse_qs(text, keep_blank_values) ==
    LET pairs == parse_qsl(text, keep_blank_values)
        at(n) == {i \in 1..Len(pairs) : pairs[i].name = n}
        RECURSIVE values(_, _)
        values(n, i) ==
            IF i > Len(pairs) THEN <<>>
            ELSE (IF pairs[i].name = n THEN <<pairs[i].value>> ELSE <<>>)
                 \o values(n, i + 1)
    IN  [n \in {pairs[i].name : i \in 1..Len(pairs)} |-> values(n, 1)]

\* bytes.decode()
Decode(b) == b.bytes

\* Mutant: the last value of a repeated key is taken.
query_params_last(query_string) ==
    LET d == parse_qs(Decode(query_string), TRUE)
    IN  [key \in DOMAIN d |-> d[key][Len(d[key])]]

\* ChannelsRequestAdapter.query_params
query_params(query_string) ==
    LET d == parse_qs(Decode(query_string), TRUE)
    IN  [key \in DOMAIN d |-> d[key][1]]

\* json.loads on the texts a multipart field may hold: "{}" decodes, the
\* empty text and "{" raise JSONDecodeError.
json_loads(text) ==
    IF text = "{}" THEN [ok |-> TRUE, value |-> "object"]
    ELSE [ok |-> FALSE, value |-> "JSONDecodeError"]

\* MultiPartParser(META, BytesIO(body), handlers).parse(): Django returns an
\* empty QueryDict when CONTENT_LENGTH is 0 and the body's fields otherwise.
MultiPartParser_parse(content_length, sc) ==
    IF content_length = "0" THEN EmptyDict
    ELSE [f \in {g \in {"operations", "map"} : sc[g] # None} |-> sc[f][1]]

\* Mutant: an absent field defaults to an empty JSON object.
get_form_data_default_object(sc) ==
    LET querydict == MultiPartParser_parse(
                        DictGet(headers(sc), "content-length", "0"), sc)
        operations == json_loads(DictGet(querydict, "operations", "{}"))
        map        == json_loads(DictGet(querydict, "map", "{}"))
    IN  IF operations.ok /\ map.ok
        THEN [ok |-> TRUE, error |-> "",
              form |-> [operations |-> operations.value, map |-> map.value]]
        ELSE [ok |-> FALSE, error |-> "JSONDecodeError", form |-> EmptyDict]

\* ChannelsRequestAdapter.get_form_data: FormData, or the JSONDecodeError that
\* json.loads raises on the first field that does not decode.
get_form_data(sc) ==
    LET querydict == MultiPartParser_parse(
                        DictGet(headers(sc), "content-length", "0"), sc)
        operations == json_loads(DictGet(querydict, "operations", ""))
        map        == json_loads(DictGet(querydict, "map", ""))
    IN  IF operations.ok /\ map.ok
        THEN [ok |-> TRUE, error |-> "",
              form |-> [operations |-> operations.value, map |-> map.value]]
        ELSE [ok |-> FALSE, error |-> "JSONDecodeError", form |-> EmptyDict]

\* ------------------------------------------------- GraphQLHTTPConsumer
\* TemporalResponse(): no status code, no headers.
TemporalResponse == [status_code |-> None, headers |-> EmptyDict]

\* Mutant: one TemporalResponse object is kept and handed to every request.
get_sub_response_shared(h) ==
    IF h = <<>> THEN [id |-> 1, heap |-> <<TemporalResponse>>]
    ELSE [id |-> 1, heap |-> h]

\* get_sub_response: a new TemporalResponse object on every call.
get_sub_response(h) == [id |-> Len(h) + 1, heap |-> Append(h, TemporalResponse)]

\* get_context(request, response)
get_context(request, response) == [request |-> request, response |-> response]

\* get_root_value(request)
get_root_value(request) == None

\* render_graphiql: the GraphiQL page, as text/html.
render_graphiql(subscriptions_enabled) ==
    [Result(Encode([kind |-> "html", value |-> subscriptions_enabled]))
        EXCEPT !.content_type = "text/html"]

\* Mutant: a result that carries errors is answered with status 400.
create_response_errors_400(data, sub) ==
    LET result == Result(Encode(json_dumps(data)))
    IN  [result EXCEPT !.status = IF "errors" \in DOMAIN data THEN 400
                                  ELSE IF Truthy(sub.status_code)
                                       THEN sub.status_code[1] ELSE 200]

\* create_response(response_data, sub_response)
create_response(data, sub) ==
    LET result == Result(Encode(json_dumps(data)))
        status == IF Truthy(sub.status_code) THEN sub.status_code[1]
                  ELSE result.status
        hdrs   == IF sub.headers # EmptyDict
                  THEN Some([b \in {Encode(k) : k \in DOMAIN sub.headers} |->
                                Encode(sub.headers[b.bytes])])
                  ELSE result.headers
    IN  [result EXCEPT !.status = status, !.headers = hdrs]

\* How run(request) can end, as handle sees it.
Pending == [kind |-> "pending", result |-> None, status_code |-> 0, reason |-> ""]
Returned(result) == [Pending EXCEPT !.kind = "result", !.result = Some(result)]
HTTPException(status_code, reason) ==
    [Pending EXCEPT !.kind = "HTTPException", !.status_code = status_code,
                    !.reason = reason]
Raised(name) == [Pending EXCEPT !.kind = "error", !.reason = name]

\* The headers handle passes to send_response for a Result.
response_headers(result) ==
    LET hs == IF result.headers = None THEN EmptyDict ELSE result.headers[1]
    IN  IF Encode("Content-Type") \notin DOMAIN hs
        THEN DictSet(hs, Encode("Content-Type"), Encode(result.content_type))
        ELSE hs

\* Mutant: the response is sent in the headers-is-None branch and again
\* after it.
handle_sends_twice(o) ==
    LET one == IF o.kind = "result"
               THEN <<[status |-> o.result[1].status,
                       body |-> o.result[1].response,
                       headers |-> Some(response_headers(o.result[1]))]>>
               ELSE IF o.kind = "HTTPException"
               THEN <<[status |-> o.status_code,
                       body |-> Encode([kind |-> "text", value |-> o.reason]),
                       headers |-> None]>>
               ELSE <<>>
    IN  IF o.kind = "result" /\ o.result[1].headers = None
        THEN one \o one ELSE one

\* Mutant: the except clause catches Exception, not HTTPException alone.
handle_catches_all(o) ==
    IF o.kind = "result"
    THEN <<[status |-> o.result[1].status, body |-> o.result[1].response,
            headers |-> Some(response_headers(o.result[1]))]>>
    ELSE IF o.kind \in {"HTTPException", "error"}
    THEN <<[status |-> o.status_code,
            body |-> Encode([kind |-> "text", value |-> o.reason]),
            headers |-> None]>>
    ELSE <<>>

\* handle(body) once run(request) has ended: the send_response calls it makes.
\* Only HTTPException is caught; any other exception leaves handle unsent.
handle(o) ==
    IF o.kind = "result"
    THEN <<[status |-> o.result[1].status, body |-> o.result[1].response,
            headers |-> Some(response_headers(o.result[1]))]>>
    ELSE IF o.kind = "HTTPException"
    THEN <<[status |-> o.status_code,
            body |-> Encode([kind |-> "text", value |-> o.reason]),
            headers |-> None]>>
    ELSE <<>>

\* ------------------------------------------------------ operation types
\* OperationType.from_http(method)
from_http(method) ==
    IF method = "GET" THEN {"query"}
    ELSE IF method = "POST" THEN {"query", "mutation", "subscription"}
    ELSE {}

\* Mutant: the subtraction of QUERY for GET is lost.
allowed_operation_types_keep_query(method, allow_queries_via_get) ==
    from_http(method)

\* Mutant: the method is not looked at.
allowed_operation_types_any_method(method, allow_queries_via_get) ==
    from_http("POST")

\* execute: the operation types handed to the engine (method is the scope's).
allowed_operation_types(method, allow_queries_via_get) ==
    LET types == from_http(method)
    IN  IF ~allow_queries_via_get /\ method = "GET"
        THEN types \ {"query"} ELSE types

\* ------------------------------------------------------------- inputs
Methods == {"GET", "POST", "PUT"}
Operations == {"none", "query", "mutation", "subscription"}
FieldTexts == {None, Some("{"), Some("{}")}
ContentLengths == {None, Some("0"), Some("n")}

\* The ASGI scope of a request: its header list is built from what the
\* client sent.
MkScope(method, accept_html, op, body, operations, map, content_length) ==
    [method |-> method, op |-> op, body |-> body,
     operations |-> operations, map |-> map,
     headers |->
        (IF accept_html THEN <<<<"Accept", "text/html">>>> ELSE <<>>)
        \o (IF body = "multipart"
            THEN <<<<"content-type", "multipart/form-data">>>>
            ELSE <<<<"Content-Type", "application/json">>>>)
        \o (IF content_length = None THEN <<>>
            ELSE <<<<"Content-Length", content_length[1]>>>>)]

Scopes ==
    {MkScope(m, a, op, b, None, None, Some("n")) :
        m \in Methods, a \in BOOLEAN, op \in Operations,
        b \in {"json", "badjson"}}
    \cup
    {MkScope(m, a, op, "multipart", f[1], f[2], f[3]) :
        m \in Methods, a \in BOOLEAN, op \in Operations,
        f \in FieldTexts \X FieldTexts \X ContentLengths}

\* What the schema's resolvers may do to their sub-response and result.
SchemaFull ==
    [status  |-> {None, Some(201), Some(404)},
     headers |-> {EmptyDict,
                  [k \in {"Content-Type"} |-> "text/plain"],
                  [k \in {"content-type"} |-> "text/plain"],
                  [k \in {"Set-Cookie"} |-> "c=1"]},
     errors  |-> BOOLEAN]
SchemaSmall ==
    [status  |-> {None, Some(201), Some(404)},
     headers |-> {EmptyDict, [k \in {"Set-Cookie"} |-> "c=1"]},
     errors  |-> {FALSE}]

Configs ==
    [schema : {SchemaFull}, graphiql : BOOLEAN, allow_queries_via_get : BOOLEAN,
     subscriptions_enabled : BOOLEAN, variant : {"cooperative", "threaded"}]

IdleScope == MkScope("POST", FALSE, "query", "json", None, None, Some("n"))
NoEffects == [status_code |-> None, headers |-> EmptyDict]

InitRest ==
    /\ heap = <<>>
    /\ sub_response = [r \in Reqs |-> None]
    /\ context = [r \in Reqs |-> None]
    /\ root_value = [r \in Reqs |-> None]
    /\ allowed = [r \in Reqs |-> None]
    /\ engine_call = [r \in Reqs |-> None]
    /\ resolver_ran = [r \in Reqs |-> FALSE]
    /\ effects = [r \in Reqs |-> NoEffects]
    /\ response_data = [r \in Reqs |-> None]
    /\ outcome = [r \in Reqs |-> Pending]
    /\ sent = [r \in Reqs |-> <<>>]

\* One request, any configuration, any input.
Init ==
    /\ cfg \in Configs
    /\ \E sc \in Scopes : scope = [r \in Reqs |-> IF r = 1 THEN sc ELSE IdleScope]
    /\ pc = [r \in Reqs |-> IF r = 1 THEN "received" ELSE "idle"]
    /\ InitRest
    /\ qs = Encode(<<>>)
    /\ qp = None

\* ------------------------------------------------------------- handle
AcceptsHtml(sc) == DictGet(headers(sc), "accept", "") = "text/html"

\* handle up to run's first suspension: the Request is built, the method is
\* checked and the GraphiQL page is rendered when it is asked for.
HandleBegin(r) ==
    /\ pc[r] = "received"
    /\ LET sc == scope[r]
       IN  IF sc.method \notin {"GET", "POST"}
           THEN /\ outcome' = [outcome EXCEPT ![r] = HTTPException(405,
                                "GraphQL only supports GET and POST requests.")]
                /\ pc' = [pc EXCEPT ![r] = "finish"]
           ELSE IF sc.method = "GET" /\ sc.op = "none" /\ AcceptsHtml(sc)
                   /\ cfg.graphiql
           THEN /\ outcome' = [outcome EXCEPT ![r] =
                                Returned(render_graphiql(cfg.subscriptions_enabled))]
                /\ pc' = [pc EXCEPT ![r] = "finish"]
           ELSE /\ outcome' = outcome
                /\ pc' = [pc EXCEPT ![r] = "context"]
    /\ UNCHANGED <<cfg, scope, heap, sub_response, context, root_value, allowed,
                   engine_call, resolver_ran, effects, response_data, sent,
                   qs, qp>>

\* run: get_sub_response, get_context and get_root_value.
RunContext(r) ==
    /\ pc[r] = "context"
    /\ LET new == get_sub_response(heap)
           request == Request(r, scope[r])
       IN  /\ heap' = new.heap
           /\ sub_response' = [sub_response EXCEPT ![r] = Some(new.id)]
           /\ context' = [context EXCEPT ![r] = Some(get_context(request, new.id))]
           /\ root_value' = [root_value EXCEPT ![r] = Some(get_root_value(request))]
    /\ pc' = [pc EXCEPT ![r] = "extract"]
    /\ UNCHANGED <<cfg, scope, allowed, engine_call, resolver_ran, effects,
                   response_data, outcome, sent, qs, qp>>

\* run: the operation is read from the query string, the JSON body or the
\* multipart form; a failure is an HTTPException(400).
ExtractionError(sc) ==
    IF sc.method = "POST" /\ content_type(sc) = Some("multipart/form-data")
       /\ ~get_form_data(sc).ok
    THEN Some("Unable to parse request body as JSON")
    ELSE IF sc.method = "POST" /\ sc.body = "badjson"
    THEN Some("Unable to parse request body as JSON")
    ELSE IF sc.op = "none"
    THEN Some("No GraphQL query found in the request")
    ELSE None

RunExtract(r) ==
    /\ pc[r] = "extract"
    /\ LET err == ExtractionError(scope[r])
       IN  IF err # None
           THEN /\ outcome' = [outcome EXCEPT ![r] = HTTPException(400, err[1])]
                /\ pc' = [pc EXCEPT ![r] = "finish"]
           ELSE /\ outcome' = outcome
                /\ pc' = [pc EXCEPT ![r] = "bridge"]
    /\ UNCHANGED <<cfg, scope, heap, sub_response, context, root_value, allowed,
                   engine_call, resolver_ran, effects, response_data, sent,
                   qs, qp>>

\* The engine is called with the operation, the context, the root value and
\* the allowed operation types; it refuses an operation of another type
\* before any resolver runs, and run turns that into an HTTPException(400).
InvokeEngine(r, ctx, root, types) ==
    /\ allowed' = [allowed EXCEPT ![r] = Some(types)]
    /\ engine_call' = [engine_call EXCEPT ![r] =
            Some([query |-> scope[r].op, context_value |-> ctx,
                  root_value |-> root, allowed_operation_types |-> types])]
    /\ IF scope[r].op \notin types
       THEN /\ outcome' = [outcome EXCEPT ![r] = HTTPException(400,
                                "operation type not allowed")]
            /\ pc' = [pc EXCEPT ![r] = "finish"]
       ELSE /\ outcome' = outcome
            /\ pc' = [pc EXCEPT ![r] = "executing"]
    /\ UNCHANGED <<cfg, scope, heap, sub_response, context, root_value,
                   resolver_ran, effects, response_data, sent, qs, qp>>

\* The cooperative bridge: the engine is awaited on the calling task.
ExecuteOperation(r) ==
    /\ pc[r] = "bridge"
    /\ cfg.variant = "cooperative"
    /\ InvokeEngine(r, <<"dict", context[r][1]>>, <<"value", root_value[r][1]>>,
                    allowed_operation_types(scope[r].method,
                                            cfg.allow_queries_via_get))

\* Positional parameters of get_context after self, and the arguments
\* execute passes to it.
get_context_params == <<"request", "response">>
execute_get_context_args == <<"self">>

\* SyncGraphQLHTTPConsumer.execute, on a worker thread.  get_context(self)
\* does not bind (response is missing), so Python raises TypeError at the
\* call; the lines after it would hand the engine the un-awaited coroutines
\* of get_context and get_root_value.
ExecuteSync(r) ==
    /\ pc[r] = "bridge"
    /\ cfg.variant = "threaded"
    /\ IF Len(execute_get_context_args) # Len(get_context_params)
       THEN /\ outcome' = [outcome EXCEPT ![r] = Raised("TypeError")]
            /\ pc' = [pc EXCEPT ![r] = "finish"]
            /\ UNCHANGED <<cfg, scope, heap, sub_response, context, root_value,
                           allowed, engine_call, resolver_ran, effects,
                           response_data, sent, qs, qp>>
       ELSE InvokeEngine(r, <<"coroutine", "get_context">>,
                         <<"coroutine", "get_root_value">>,
                         allowed_operation_types(scope[r].method,
                                                 cfg.allow_queries_via_get))

\* A resolver's writes to the sub-response its context holds.
ResolverWrites(sub, status, hdrs) ==
    [status_code |-> IF status = None THEN sub.status_code ELSE status,
     headers |-> [k \in DOMAIN sub.headers \cup DOMAIN hdrs |->
                    IF k \in DOMAIN hdrs THEN hdrs[k] ELSE sub.headers[k]]]

\* process_result: the response dict, with only the keys that are present.
process_result(errors) ==
    IF errors THEN [data |-> "null", errors |-> <<"error">>]
    ELSE [data |-> "data"]

\* The engine runs the operation: its resolvers execute, or it fails with an
\* exception that is not a GraphQL error.
EngineRun(r) ==
    /\ pc[r] = "executing"
    /\ \/ /\ outcome' = [outcome EXCEPT ![r] = Raised("EngineFault")]
          /\ pc' = [pc EXCEPT ![r] = "finish"]
          /\ UNCHANGED <<heap, resolver_ran, effects, response_data>>
       \/ \E status \in cfg.schema.status, hdrs \in cfg.schema.headers,
             errors \in cfg.schema.errors :
            LET id == context[r][1].response
            IN  /\ heap' = [heap EXCEPT ![id] = ResolverWrites(@, status, hdrs)]
                /\ resolver_ran' = [resolver_ran EXCEPT ![r] = TRUE]
                /\ effects' = [effects EXCEPT ![r] =
                                [status_code |-> status, headers |-> hdrs]]
                /\ response_data' = [response_data EXCEPT ![r] =
                                        Some(process_result(errors))]
                /\ pc' = [pc EXCEPT ![r] = "build"]
                /\ outcome' = outcome
    /\ UNCHANGED <<cfg, scope, sub_response, context, root_value, allowed,
                   engine_call, sent, qs, qp>>

\* run: create_response from the result and the request's sub-response.
RunBuild(r) ==
    /\ pc[r] = "build"
    /\ outcome' = [outcome EXCEPT ![r] =
            Returned(create_response(response_data[r][1],
                                     heap[sub_response[r][1]]))]
    /\ pc' = [pc EXCEPT ![r] = "finish"]
    /\ UNCHANGED <<cfg, scope, heap, sub_response, context, root_value, allowed,
                   engine_call, resolver_ran, effects, response_data, sent,
                   qs, qp>>

\* handle after run: the response or the HTTPException is sent; any other
\* exception leaves handle.
HandleFinish(r) ==
    /\ pc[r] = "finish"
    /\ sent' = [sent EXCEPT ![r] = @ \o handle(outcome[r])]
    /\ pc' = [pc EXCEPT ![r] = IF outcome[r].kind = "error" THEN "propagated"
                               ELSE "done"]
    /\ UNCHANGED <<cfg, scope, heap, sub_response, context, root_value, allowed,
                   engine_call, resolver_ran, effects, response_data, outcome,
                   qs, qp>>

\* The transport cancels the task at a suspension point: CancelledError is
\* raised into run and is not an HTTPException.
Cancel(r) ==
    /\ pc[r] \in {"extract", "executing"}
    /\ outcome' = [outcome EXCEPT ![r] = Raised("CancelledError")]
    /\ pc' = [pc EXCEPT ![r] = "finish"]
    /\ UNCHANGED <<cfg, scope, heap, sub_response, context, root_value, allowed,
                   engine_call, resolver_ran, effects, response_data, sent,
                   qs, qp>>

Next ==
    \E r \in Reqs :
        \/ HandleBegin(r)
        \/ RunContext(r)
        \/ RunExtract(r)
        \/ ExecuteOperation(r)
        \/ ExecuteSync(r)
        \/ EngineRun(r)
        \/ RunBuild(r)
        \/ HandleFinish(r)
        \/ Cancel(r)

Spec == Init /\ [][Next]_vars

\* ------------------------------------------------ concurrent requests
\* Every request is in flight at once on the cooperative scheduler; each
\* action is the code between two suspension points of a task.
ScopesConc ==
    {MkScope("POST", FALSE, op, "json", None, None, Some("n")) :
        op \in {"query", "mutation"}}

ConfigConc ==
    [schema |-> SchemaSmall, graphiql |-> TRUE, allow_queries_via_get |-> TRUE,
     subscriptions_enabled |-> TRUE, variant |-> "cooperative"]

InitConc ==
    /\ cfg = ConfigConc
    /\ scope \in [Reqs -> ScopesConc]
    /\ pc = [r \in Reqs |-> "received"]
    /\ InitRest
    /\ qs = Encode(<<>>)
    /\ qp = None

NextConc ==
    \E r \in Reqs :
        \/ HandleBegin(r)
        \/ RunContext(r)
        \/ RunExtract(r)
        \/ ExecuteOperation(r)
        \/ EngineRun(r)
        \/ RunBuild(r)
        \/ HandleFinish(r)

SpecConc == InitConc /\ [][NextConc]_vars

\* ------------------------------------------------------- query_params
RECURSIVE Strings(_)
\* The texts of at most n characters.
Strings(n) ==
    IF n = 0 THEN {<<>>}
    ELSE LET shorter == Strings(n - 1)
         IN  shorter \cup {Append(s, c) : s \in shorter, c \in QueryChars}

InitQP ==
    /\ cfg = ConfigConc
    /\ scope = [r \in Reqs |-> IdleScope]
    /\ pc = [r \in Reqs |-> "idle"]
    /\ InitRest
    /\ qs \in {Encode(s) : s \in Strings(MaxQueryLen)}
    /\ qp = None

\* The adapter's query_params property is read.
QueryParams ==
    /\ qp = None
    /\ qp' = Some(query_params(qs))
    /\ UNCHANGED <<cfg, scope, pc, heap, sub_response, context, root_value,
                   allowed, engine_call, resolver_ran, effects, response_data,
                   outcome, sent, qs>>

NextQP == QueryParams

SpecQP == InitQP /\ [][NextQP]_vars

\* ================================================================ claims
ClientError(status) == status >= 400 /\ status <= 499
Terminal(r) == pc[r] \in {"done", "propagated"}
Multipart(sc) == sc.method = "POST" /\ sc.body = "multipart"

C2_DisallowedNeverExecutes ==
    \A r \in Reqs :
        /\ engine_call[r] # None =>
                /\ allowed[r] # None
                /\ engine_call[r][1].allowed_operation_types = allowed[r][1]
        /\ resolver_ran[r] =>
                /\ engine_call[r] # None
                /\ scope[r].method \in {"GET", "POST"}
                /\ scope[r].method = "GET" =>
                        (scope[r].op = "query" /\ cfg.allow_queries_via_get)
        /\ (scope[r].method = "GET" /\ scope[r].op = "mutation") =>
                /\ ~resolver_ran[r]
                /\ effects[r] = NoEffects
                /\ \A i \in 1..Len(heap) : heap[i] = TemporalResponse
                /\ pc[r] = "done" => ClientError(sent[r][1].status)

C2_Witness ==
    /\ scope[1].method = "GET" /\ scope[1].op = "mutation"
    /\ cfg.allow_queries_via_get
    /\ engine_call[1] # None
    /\ ~resolver_ran[1]
    /\ pc[1] = "done" /\ sent[1][1].status = 400

\* C3: the status of the response built from an execution result is the
\* status code the resolvers set on the sub-response, and 200 when they set
\* none, whether or not the result carries errors.
C3_StatusFromSubResponse ==
    \A r \in Reqs :
        (resolver_ran[r] /\ outcome[r].kind = "result") =>
            /\ outcome[r].result[1].status =
                    (IF effects[r].status_code = None THEN 200
                     ELSE effects[r].status_code[1])
            /\ pc[r] = "done" =>
                    sent[r][1].status = outcome[r].result[1].status

C3_Witness ==
    /\ pc[1] = "done" /\ resolver_ran[1]
    /\ "errors" \in DOMAIN response_data[1][1]
    /\ effects[1].status_code = None
    /\ sent[1][1].status = 200

\* C4: the headers sent for a successful request are the sub-response's
\* headers plus Content-Type: application/json when no resolver set a
\* Content-Type; when a resolver set one, under any spelling of the name,
\* exactly one Content-Type is sent and it carries the resolver's value.
C4_OneContentType ==
    \A r \in Reqs :
        (pc[r] = "done" /\ resolver_ran[r] /\ outcome[r].kind = "result") =>
            LET hs   == sent[r][1].headers[1]
                set  == effects[r].headers
                cts  == {b \in DOMAIN hs : Lower(b.bytes) = "content-type"}
                mine == {k \in DOMAIN set : Lower(k) = "content-type"}
            IN  /\ \A k \in DOMAIN set :
                        Encode(k) \in DOMAIN hs /\ hs[Encode(k)] = Encode(set[k])
                /\ Cardinality(cts) = 1
                /\ \A b \in cts :
                        hs[b] = IF mine = {} THEN Encode("application/json")
                                ELSE Encode(set[b.bytes])

\* C5: a request whose run returned a Result or raised an HTTPException is
\* answered by exactly one send_response call, carrying the JSON response,
\* the GraphiQL page or the error, and no request is ever answered twice.
C5_ExactlyOneSend ==
    \A r \in Reqs :
        /\ Len(sent[r]) <= 1
        /\ (pc[r] = "done" /\ outcome[r].kind = "result") =>
                /\ Len(sent[r]) = 1
                /\ sent[r][1].body = outcome[r].result[1].response
                /\ sent[r][1].body.bytes.kind \in {"json", "html"}
                /\ sent[r][1].body.bytes.kind = "html" <=> ~resolver_ran[r]
        /\ (pc[r] = "done" /\ outcome[r].kind = "HTTPException") =>
                /\ Len(sent[r]) = 1
                /\ sent[r][1].body.bytes.kind = "text"
        /\ pc[r] = "done" => outcome[r].kind \in {"result", "HTTPException"}

C5_Witness ==
    /\ pc[1] = "done" /\ outcome[1].kind = "result" /\ resolver_ran[1]
    /\ outcome[1].result[1].headers = None
    /\ Len(sent[1]) = 1

C7_FormDataNeedsBothFields ==
    \A r \in Reqs :
        LET sc == scope[r]
            good == /\ sc.operations = Some("{}") /\ sc.map = Some("{}")
                    /\ "content-type" \in DOMAIN headers(sc)
                    /\ "content-length" \in DOMAIN headers(sc)
        IN  Multipart(sc) =>
                /\ get_form_data(sc).ok => good
                /\ (pc[r] \in {"bridge", "executing", "build"}
                        \/ engine_call[r] # None) => good
                /\ (~good /\ pc[r] = "done") =>
                        /\ sent[r][1].status = 400
                        /\ engine_call[r] = None /\ ~resolver_ran[r]

C7_Witness ==
    /\ Multipart(scope[1])
    /\ scope[1].operations = Some("{}") /\ scope[1].map = None
    /\ "content-length" \in DOMAIN headers(scope[1])
    /\ pc[1] = "done" /\ sent[1][1].status = 400

\* C10: the threaded execute serves a request as the cooperative bridge
\* does: it hands the engine the request's operation, the context holding
\* the request and its sub-response, the root value and the allowed
\* operation types, and the request ends as it would cooperatively.
C10_ThreadedAsCooperative ==
    \A r \in Reqs :
        (/\ Terminal(r) /\ context[r] # None
         /\ ExtractionError(scope[r]) = None
         /\ outcome[r].reason # "CancelledError") =>
            /\ engine_call[r] # None
            /\ engine_call[r][1].query = scope[r].op
            /\ engine_call[r][1].context_value =
                    <<"dict", [request |-> Request(r, scope[r]),
                               response |-> sub_response[r][1]]>>
            /\ engine_call[r][1].root_value = <<"value", None>>
            /\ engine_call[r][1].allowed_operation_types =
                    allowed_operation_types(scope[r].method,
                                            cfg.allow_queries_via_get)
            /\ outcome[r].reason # "TypeError"

\* C8: query_params holds every key of the query string, keys with blank
\* values included, each with the value of its first occurrence; a later
\* value of a repeated key never replaces it.
C8_FirstValueWins ==
    qp # None =>
        LET segs == SelectSeq(Split(Decode(qs), "&"), LAMBDA g : g # <<>>)
            name(g) == unquote(PlusToSpace(Partition(g).name))
            value(g) == unquote(PlusToSpace(Partition(g).value))
        IN  /\ DOMAIN qp[1] = {name(segs[i]) : i \in 1..Len(segs)}
            /\ \A i \in 1..Len(segs) :
                    (\A j \in 1..(i - 1) : name(segs[j]) # name(segs[i])) =>
                        qp[1][name(segs[i])] = value(segs[i])

C8_Witness ==
    /\ Decode(qs) = <<"a", "=", "b", "&", "a", "=">>
    /\ qp = Some([k \in {<<"a">>} |-> <<"b">>])

\* C9: requests served at the same time never share a sub-response or a
\* context: the sub-response a request's context holds is its own, it holds
\* what that request's resolvers wrote and nothing else, and the status and
\* headers sent for a request are those its own resolvers set.
C9_RequestsIsolated ==
    \A r \in Reqs :
        /\ \A o \in Reqs \ {r} :
                sub_response[r] # None => sub_response[o] # sub_response[r]
        /\ context[r] # None =>
                /\ context[r][1].response = sub_response[r][1]
                /\ context[r][1].request = Request(r, scope[r])
                /\ heap[sub_response[r][1]] =
                        [status_code |-> effects[r].status_code,
                         headers |-> effects[r].headers]
        /\ (pc[r] = "done" /\ outcome[r].kind = "result") =>
                /\ sent[r][1].status =
                        (IF effects[r].status_code = None THEN 200
                         ELSE effects[r].status_code[1])
                /\ \A b \in DOMAIN sent[r][1].headers[1] :
                        \/ b = Encode("Content-Type")
                        \/ b.bytes \in DOMAIN effects[r].headers

C9_Witness ==
    /\ pc[1] = "done" /\ pc[2] = "done"
    /\ effects[1].status_code = Some(201) /\ effects[2].status_code = Some(404)
    /\ sub_response[1] = Some(2) /\ sub_response[2] = Some(1)
    /\ sent[1][1].status = 201 /\ sent[2][1].status = 404

====
